---- MODULE Spec2Model ----
(***************************************************************************)
(* Model of the perf sampler of rezolus (src/samplers/perf/mod.rs):        *)
(* Perf::new builds the per-core counter pool, sample() reads and sums the *)
(* counters and forwards the totals to the recorder, register() and        *)
(* deregister() manage the recorder channels.                              *)
(***************************************************************************)
EXTENDS Integers, Sequences, FiniteSets, TLC

\* ------------------------------------------------------------------ bounds
MaxStatistics == 2      \* how many PerfStatistic values the configuration may name
MaxCores == 2           \* largest hardware thread count explored
WordBits == 1           \* width of the counter word (u64 in the code, scaled down)
MaxTime == 1            \* precise_time_ns() answers 0..MaxTime
MaxCounters == 4        \* most counters (configured statistics times cores) explored

StatisticNames == <<"CYCLES", "BRANCH_MISSES", "INSTRUCTIONS", "CACHE_MISSES">>
Statistics == {StatisticNames[i] : i \in 1..MaxStatistics}
Modulus == 2 ^ WordBits
U64 == 0..(Modulus - 1)
Times == 0..MaxTime

\* hardware_threads(): Ok(n) or Err
HardwareThreads == [ok : {TRUE}, val : 1..MaxCores] \cup {[ok |-> FALSE, val |-> 0]}

\* counter.read(): Ok(count) or Err
ReadResults == [ok : {TRUE}, val : U64] \cup {[ok |-> FALSE, val |-> 0]}

VARIABLES
    pc,           \* position of the outer loop: "start", "disabled", "idle", "returned"
    enabled,      \* config.perf().enabled()
    statistics,   \* config.perf().statistics(), in configuration order
    threads,      \* what hardware_threads() answered
    creatable,    \* whether the platform yields a counter for (statistic, core)
    attempts,     \* the counter creations Perf::new attempted, in order
    counters,     \* self.counters : statistic -> sequence of counter handles
    keyOrder,     \* the iteration order of the self.counters hash map
    initialized,  \* self.initialized
    channels,     \* the recorder's channels (labels)
    op,           \* the operation that returned last ("none" when idle)
    prevOp,       \* the operation that returned before it
    prevWasInitialized, \* self.initialized when prevOp was entered
    wasInitialized, \* self.initialized when op was entered
    channelsBefore, \* the recorder's channels when op was entered
    trace,        \* the calls op made, in order
    ret,          \* what op returned
    twinInitialized,  \* self.initialized of a second run of the same sampler
    twinFailedBefore, \* whether a read of an earlier tick of the second run failed
    twinTrace     \* the calls of the second run's sample() made on the same reads

vars == <<pc, enabled, statistics, threads, creatable, attempts, counters, keyOrder,
          initialized, channels, op, prevOp, prevWasInitialized,
          wasInitialized, channelsBefore, trace, ret,
          twinInitialized, twinFailedBefore, twinTrace>>

twinVars == <<twinInitialized, twinFailedBefore, twinTrace>>

\* ------------------------------------------------------------------ helpers
Range(s) == {s[i] : i \in DOMAIN s}

RECURSIVE Flatten(_)
Flatten(ss) == IF ss = <<>> THEN <<>> ELSE Head(ss) \o Flatten(Tail(ss))

\* the sequences over S without repetition
Orders(S) == {s \in UNION {[1..n -> S] : n \in 0..Cardinality(S)} :
                 /\ Len(s) = Cardinality(S)
                 /\ \A i, j \in DOMAIN s : i # j => s[i] # s[j]}

\* the configured statistics: any subset, listed in the order of StatisticNames
RECURSIVE Listed(_, _)
Listed(S, i) ==
    IF i > Len(StatisticNames) THEN <<>>
    ELSE (IF StatisticNames[i] \in S THEN <<StatisticNames[i]>> ELSE <<>>) \o Listed(S, i + 1)

Configurations == {Listed(S, 1) : S \in SUBSET Statistics}

EmptyMap == [s \in {} |-> <<>>]

\* HashMap::insert
Insert(map, k, v) == [x \in DOMAIN map \cup {k} |-> IF x = k THEN v ELSE map[x]]

\* statistic.to_string(): the display label of a statistic
to_string(statistic) == <<"perf", statistic>>

\* ------------------------------------------------------------------ Perf::new
\* mutation: an undeterminable thread count is taken as no core at all
UnwrapOr0(r) == IF r.ok THEN r.val ELSE 0

\* hardware_threads().unwrap_or(1)
UnwrapOr1(r) == IF r.ok THEN r.val ELSE 1

Handle(statistic, core) == [event |-> statistic, cpu |-> core]

\* mutation: the core loop goes on after a failed creation
RECURSIVE CoreLoopNoBreak(_, _, _, _, _)
CoreLoopNoBreak(statistic, core, cores, can, acc) ==
    IF core >= cores THEN acc
    ELSE CoreLoopNoBreak(statistic, core + 1, cores, can,
            [event_counters |-> IF can[<<statistic, core>>]
                                THEN Append(acc.event_counters, Handle(statistic, core))
                                ELSE acc.event_counters,
             attempts |-> Append(acc.attempts,
                                 [statistic |-> statistic, core |-> core,
                                  ok |-> can[<<statistic, core>>]])])

\* for core in 0..cores { match builder().on_cpu(core).for_all_pids().finish() .. }
RECURSIVE CoreLoop(_, _, _, _, _)
CoreLoop(statistic, core, cores, can, acc) ==
    IF core >= cores THEN acc
    ELSE IF can[<<statistic, core>>]
         THEN CoreLoop(statistic, core + 1, cores, can,
                       [event_counters |-> Append(acc.event_counters, Handle(statistic, core)),
                        attempts |-> Append(acc.attempts,
                                            [statistic |-> statistic, core |-> core, ok |-> TRUE])])
         ELSE [event_counters |-> acc.event_counters,
               attempts |-> Append(acc.attempts,
                                   [statistic |-> statistic, core |-> core, ok |-> FALSE])]

\* mutation: a partial set of handles is kept
RetainedPartial(event_counters, cores) == Len(event_counters) > 0

\* if event_counters.len() as u64 == cores
Retained(event_counters, cores) == Len(event_counters) = cores

\* for statistic in config.perf().statistics() { .. }
RECURSIVE StatisticLoop(_, _, _, _)
StatisticLoop(stats, cores, can, acc) ==
    IF stats = <<>> THEN acc
    ELSE LET statistic == Head(stats)
             r == CoreLoop(statistic, 0, cores, can,
                           [event_counters |-> <<>>, attempts |-> acc.attempts])
         IN StatisticLoop(Tail(stats), cores, can,
                [counters |-> IF Retained(r.event_counters, cores)
                              THEN Insert(acc.counters, statistic, r.event_counters)
                              ELSE acc.counters,
                 attempts |-> r.attempts])

BuildPool(stats, cores, can) ==
    StatisticLoop(stats, cores, can, [counters |-> EmptyMap, attempts |-> <<>>])

\* mutation: the pool is built before the enabled flag is looked at
NewPoolEager(en, stats, cores, can) == BuildPool(stats, cores, can)

\* if config.perf().enabled() { .. build the pool .. } else { no counter is created }
NewPool(en, stats, cores, can) ==
    IF en THEN BuildPool(stats, cores, can) ELSE [counters |-> EmptyMap, attempts |-> <<>>]

\* mutation: a failed counter creation is passed on to the caller
NewReturnPropagates(en, pool) ==
    IF en
    THEN (IF \E i \in DOMAIN pool.attempts : ~pool.attempts[i].ok THEN "Err" ELSE "Ok(Some)")
    ELSE "Ok(None)"

\* Ok(Some(Box::new(Self { .. }))) when enabled, Ok(None) otherwise
NewReturn(en, pool) == IF en THEN "Ok(Some)" ELSE "Ok(None)"

New ==
    /\ pc = "start"
    /\ \E en \in BOOLEAN, stats \in Configurations, hw \in HardwareThreads :
         \E can \in [Range(stats) \X (0..(UnwrapOr1(hw) - 1)) -> BOOLEAN] :
            /\ Len(stats) * UnwrapOr1(hw) <= MaxCounters
            /\ enabled' = en
            /\ statistics' = stats
            /\ threads' = hw
            /\ creatable' = can
            /\ LET pool == NewPool(en, stats, UnwrapOr1(hw), can)
               IN /\ counters' = pool.counters
                  /\ attempts' = pool.attempts
                  /\ keyOrder' \in Orders(DOMAIN pool.counters)
                  /\ ret' = NewReturn(en, pool)
            /\ pc' = IF en THEN "returned" ELSE "disabled"
    /\ initialized' = FALSE
    /\ wasInitialized' = FALSE
    /\ channelsBefore' = channels
    /\ op' = "new"
    /\ prevOp' = op
    /\ prevWasInitialized' = wasInitialized
    /\ trace' = <<>>
    /\ UNCHANGED channels
    /\ UNCHANGED twinVars

\* ------------------------------------------------------------------ recorder
\* register_counter(self.recorder, statistic, TRILLION, 3, window, PERCENTILES)
RegisterCall(statistic) ==
    [call |-> "register_counter", statistic |-> statistic, max |-> "TRILLION",
     precision |-> 3, window |-> "config.general().window()", percentiles |-> "PERCENTILES"]

\* self.recorder.delete_channel(statistic.to_string())
DeleteCall(statistic) == [call |-> "delete_channel", name |-> to_string(statistic)]

\* record_counter(self.recorder, statistic, time, value)
RecordCall(statistic, time, value) ==
    [call |-> "record_counter", statistic |-> statistic, time |-> time, value |-> value]

\* the recorder's channels after one call: register creates the channel of the
\* statistic's label, delete_channel removes the named one
ApplyCall(chans, c) ==
    IF c.call = "register_counter" THEN chans \cup {to_string(c.statistic)}
    ELSE IF c.call = "delete_channel" THEN chans \ {c.name}
    ELSE chans

RECURSIVE ApplyCalls(_, _)
ApplyCalls(chans, calls) ==
    IF calls = <<>> THEN chans ELSE ApplyCalls(ApplyCall(chans, Head(calls)), Tail(calls))

\* ------------------------------------------------------------------ Perf::register
\* mutation: the last key is not registered
RegisterCallsButLast(order) == [i \in 1..(Len(order) - 1) |-> RegisterCall(order[i])]

\* for statistic in self.counters.keys() { register_counter(..) }
RegisterCalls(order) == [i \in 1..Len(order) |-> RegisterCall(order[i])]

\* mutation: register() without its guard
RegisterTraceUnguarded(init, order) == RegisterCalls(order)

\* if !self.initialized { ..; self.initialized = true }
RegisterTrace(init, order) == IF ~init THEN RegisterCalls(order) ELSE <<>>

\* mutation: register() forgets to set the flag
RegisterFlagUnset(init) == init

RegisterFlag(init) == IF ~init THEN TRUE ELSE init

Register ==
    /\ pc = "idle"
    /\ trace' = RegisterTrace(initialized, keyOrder)
    /\ initialized' = RegisterFlag(initialized)
    /\ channels' = ApplyCalls(channels, trace')
    /\ wasInitialized' = initialized
    /\ channelsBefore' = channels
    /\ op' = "register"
    /\ ret' = "()"
    /\ pc' = "returned"
    /\ UNCHANGED <<enabled, statistics, threads, creatable, attempts, counters, keyOrder, prevOp,
                   prevWasInitialized>>
    /\ UNCHANGED twinVars

\* ------------------------------------------------------------------ Perf::deregister
\* mutation: the last key's channel is not deleted
DeleteCallsButLast(order) == [i \in 1..(Len(order) - 1) |-> DeleteCall(order[i])]

\* for statistic in self.counters.keys() { self.recorder.delete_channel(..) }
DeleteCalls(order) == [i \in 1..Len(order) |-> DeleteCall(order[i])]

\* mutation: deregister() without its guard
DeregisterTraceUnguarded(init, order) == DeleteCalls(order)

\* if self.initialized { ..; self.initialized = false }
DeregisterTrace(init, order) == IF init THEN DeleteCalls(order) ELSE <<>>

\* mutation: deregister() forgets to clear the flag
DeregisterFlagKept(init) == init

DeregisterFlag(init) == IF init THEN FALSE ELSE init

\* mutation: deregister() also gives up the counters
DeregisterDropsPool ==
    /\ pc = "idle"
    /\ trace' = DeregisterTrace(initialized, keyOrder)
    /\ initialized' = DeregisterFlag(initialized)
    /\ channels' = ApplyCalls(channels, trace')
    /\ counters' = IF initialized THEN EmptyMap ELSE counters
    /\ keyOrder' = IF initialized THEN <<>> ELSE keyOrder
    /\ wasInitialized' = initialized
    /\ channelsBefore' = channels
    /\ op' = "deregister"
    /\ ret' = "()"
    /\ pc' = "returned"
    /\ UNCHANGED <<enabled, statistics, threads, creatable, attempts, prevOp, prevWasInitialized>>
    /\ UNCHANGED twinVars

Deregister ==
    /\ pc = "idle"
    /\ trace' = DeregisterTrace(initialized, keyOrder)
    /\ initialized' = DeregisterFlag(initialized)
    /\ channels' = ApplyCalls(channels, trace')
    /\ wasInitialized' = initialized
    /\ channelsBefore' = channels
    /\ op' = "deregister"
    /\ ret' = "()"
    /\ pc' = "returned"
    /\ UNCHANGED <<enabled, statistics, threads, creatable, attempts, counters, keyOrder, prevOp,
                   prevWasInitialized>>
    /\ UNCHANGED twinVars

\* ------------------------------------------------------------------ Perf::sample
Handles(pool) == UNION {Range(pool[s]) : s \in DOMAIN pool}

\* let time = time::precise_time_ns()
TimeCall(time) == [call |-> "precise_time_ns", time |-> time]

\* counter.read()
ReadCall(counter, result) == [call |-> "read", counter |-> counter, result |-> result]

\* match counter.read() { Ok(c) => c, Err(e) => 0 }
Count(result) == IF result.ok THEN result.val ELSE 0

\* for (event, counters) in &mut self.counters { for counter in counters { counter.read() } }
ReadCalls(order, pool, reads) ==
    Flatten([i \in 1..Len(order) |->
                [c \in 1..Len(pool[order[i]]) |->
                    ReadCall(pool[order[i]][c], reads[pool[order[i]][c]])]])

\* mutation: a statistic with a failed read is left out of the tick
CurrentSkipsFailed(pool, reads) ==
    [s \in {k \in DOMAIN pool : \A c \in 1..Len(pool[k]) : reads[pool[k][c]].ok} |->
        [c \in 1..Len(pool[s]) |-> Count(reads[pool[s][c]])]]

\* current.insert(*event, c), c the counts of the event's counters in core order
Current(pool, reads) ==
    [s \in DOMAIN pool |-> [c \in 1..Len(pool[s]) |-> Count(reads[pool[s][c]])]]

\* counter.iter().sum() over u64: the additions stay in the counter word (they
\* wrap; a build with overflow checks panics instead of wrapping)
RECURSIVE SumFrom(_, _)
SumFrom(acc, counts) ==
    IF counts = <<>> THEN acc ELSE SumFrom((acc + Head(counts)) % Modulus, Tail(counts))

Sum(counts) == SumFrom(0, counts)

\* mutation: the clock is read again for every recorded value
RecordCallsClockPerValue(order, current, time) ==
    LET found == SelectSeq(order, LAMBDA s : s \in DOMAIN current)
    IN [i \in 1..Len(found) |-> RecordCall(found[i], time + i - 1, Sum(current[found[i]]))]

\* for statistic in self.counters.keys() { if let Some(counter) = current.get(statistic) {
\*     record_counter(self.recorder, statistic, time, counter.iter().sum()) } }
RecordCalls(order, current, time) ==
    LET found == SelectSeq(order, LAMBDA s : s \in DOMAIN current)
    IN [i \in 1..Len(found) |-> RecordCall(found[i], time, Sum(current[found[i]]))]

\* mutation: every sample registers, whatever the flag says
SampleTraceReregisters(init, order, pool, reads, time) ==
    <<TimeCall(time)>>
    \o ReadCalls(order, pool, reads)
    \o RegisterCalls(order)
    \o RecordCalls(order, Current(pool, reads), time)

\* mutation: the values are recorded before the channels are registered
SampleTraceRecordsFirst(init, order, pool, reads, time) ==
    <<TimeCall(time)>>
    \o ReadCalls(order, pool, reads)
    \o RecordCalls(order, Current(pool, reads), time)
    \o (IF ~init THEN RegisterTrace(init, order) ELSE <<>>)

\* mutation: the tick that registers records nothing
SampleTraceSkipsFirstTick(init, order, pool, reads, time) ==
    <<TimeCall(time)>>
    \o ReadCalls(order, pool, reads)
    \o (IF ~init THEN RegisterTrace(init, order)
                 ELSE RecordCalls(order, Current(pool, reads), time))

SampleTrace(init, order, pool, reads, time) ==
    <<TimeCall(time)>>
    \o ReadCalls(order, pool, reads)
    \o (IF ~init THEN RegisterTrace(init, order) ELSE <<>>)
    \o RecordCalls(order, Current(pool, reads), time)

\* mutation: sample() registers the channels without the flag being set
SampleFlagUnset(init) == init

\* if !self.initialized { self.register() }
SampleFlag(init) == IF ~init THEN RegisterFlag(init) ELSE init

\* mutation: a failed read is reported to the caller
SampleReturnPropagates(pool, reads) ==
    IF \E h \in Handles(pool) : ~reads[h].ok THEN "Err(())" ELSE "Ok(())"

\* Ok(())
SampleReturn(pool, reads) == "Ok(())"

\* one sample() call with the given clock reading and read results
SampleCall(time, reads) ==
    /\ pc = "idle"
    /\ trace' = SampleTrace(initialized, keyOrder, counters, reads, time)
    /\ ret' = SampleReturn(counters, reads)
    /\ initialized' = SampleFlag(initialized)
    /\ channels' = ApplyCalls(channels, trace')
    /\ wasInitialized' = initialized
    /\ channelsBefore' = channels
    /\ op' = "sample"
    /\ pc' = "returned"
    /\ UNCHANGED <<enabled, statistics, threads, creatable, attempts, counters, keyOrder, prevOp,
                   prevWasInitialized>>

Sample ==
    /\ \E time \in Times, reads \in [Handles(counters) -> ReadResults] : SampleCall(time, reads)
    /\ UNCHANGED twinVars

\* ------------------------------------------------------------------ Perf::name
Name ==
    /\ pc = "idle"
    /\ trace' = <<>>
    /\ wasInitialized' = initialized
    /\ channelsBefore' = channels
    /\ op' = "name"
    /\ ret' = "perf"
    /\ pc' = "returned"
    /\ UNCHANGED <<enabled, statistics, threads, creatable, attempts, counters, keyOrder,
                   initialized, channels, prevOp, prevWasInitialized>>
    /\ UNCHANGED twinVars

\* ------------------------------------------------------------------ outer loop
\* the caller takes the result and comes round to its next call
Idle ==
    /\ pc = "returned"
    /\ pc' = "idle"
    /\ prevOp' = op
    /\ prevWasInitialized' = wasInitialized
    /\ op' = "none"
    /\ trace' = <<>>
    /\ ret' = "none"
    /\ wasInitialized' = initialized
    /\ channelsBefore' = channels
    /\ UNCHANGED <<enabled, statistics, threads, creatable, attempts, counters, keyOrder,
                   initialized, channels>>
    /\ twinTrace' = <<>>
    /\ UNCHANGED <<twinInitialized, twinFailedBefore>>

Init ==
    /\ pc = "start"
    /\ enabled = FALSE
    /\ statistics = <<>>
    /\ threads = [ok |-> FALSE, val |-> 0]
    /\ creatable = <<>>
    /\ attempts = <<>>
    /\ counters = EmptyMap
    /\ keyOrder = <<>>
    /\ initialized = FALSE
    /\ channels = {}
    /\ op = "none"
    /\ prevOp = "none"
    /\ prevWasInitialized = FALSE
    /\ wasInitialized = FALSE
    /\ channelsBefore = {}
    /\ trace = <<>>
    /\ ret = "none"
    /\ twinInitialized = FALSE
    /\ twinFailedBefore = FALSE
    /\ twinTrace = <<>>

Next == New \/ Idle \/ Sample \/ Register \/ Deregister \/ Name

Spec == Init /\ [][Next]_vars

\* ------------------------------------------------------------------ two runs
\* A second run of the same sampler (same pool), with a history of its own:
\* its register(), deregister() and sample() calls change its flag only.
mainVars == <<pc, enabled, statistics, threads, creatable, attempts, counters, keyOrder,
              initialized, channels, op, prevOp, prevWasInitialized,
              wasInitialized, channelsBefore, trace, ret>>

TwinRegister ==
    /\ pc = "idle"
    /\ twinInitialized' = RegisterFlag(twinInitialized)
    /\ UNCHANGED <<twinFailedBefore, twinTrace>>
    /\ UNCHANGED mainVars

TwinDeregister ==
    /\ pc = "idle"
    /\ twinInitialized' = DeregisterFlag(twinInitialized)
    /\ UNCHANGED <<twinFailedBefore, twinTrace>>
    /\ UNCHANGED mainVars

\* a tick of the second run alone, with read results of its own, of which only
\* whether one of them failed is kept
TwinSample ==
    /\ pc = "idle"
    /\ \E failed \in {f \in BOOLEAN : f => Handles(counters) # {}} :
          twinFailedBefore' = (twinFailedBefore \/ failed)
    /\ twinInitialized' = SampleFlag(twinInitialized)
    /\ UNCHANGED twinTrace
    /\ UNCHANGED mainVars

\* a tick in which both runs get the same read results (at clock reading 0)
SamplePair ==
    \E reads \in [Handles(counters) -> ReadResults] :
       /\ SampleCall(0, reads)
       /\ twinTrace' = SampleTrace(twinInitialized, keyOrder, counters, reads, 0)
       /\ twinInitialized' = SampleFlag(twinInitialized)
       /\ UNCHANGED twinFailedBefore

NextTwin ==
    \/ New \/ Idle \/ Register \/ Deregister \/ Name
    \/ TwinRegister \/ TwinDeregister \/ TwinSample \/ SamplePair

SpecTwin == Init /\ [][NextTwin]_vars
\* ------------------------------------------------------------------ properties
Constructed == pc \in {"returned", "idle"}

\* core_count: hardware_threads().unwrap_or(1)
Cores == UnwrapOr1(threads)

Tracked == DOMAIN counters

\* the positions of trace holding a call of the given kind
Calls(kind) == {i \in DOMAIN trace : trace[i].call = kind}

CallsFor(kind, statistic) == {i \in Calls(kind) : trace[i].statistic = statistic}

\* C1: after Perf::new, a configured Statistic is a key of the pool iff creation
\* succeeded on every core 0..core_count-1; a key maps to exactly core_count
\* handles (the ones of cores 0.. in order); a Statistic that failed on some core
\* is absent and the pool holds none of its handles.
C1_PoolAllOrNothing ==
    Constructed =>
       /\ Tracked \subseteq Range(statistics)
       /\ \A s \in Range(statistics) :
             /\ s \in Tracked <=> \A c \in 0..(Cores - 1) : creatable[<<s, c>>]
             /\ s \in Tracked =>
                   /\ Len(counters[s]) = Cores
                   /\ \A c \in 0..(Cores - 1) : counters[s][c + 1] = Handle(s, c)
             /\ s \notin Tracked => \A h \in Handles(counters) : h.event # s

\* a two-core pool keeps one Statistic and drops another whose core 0 succeeded
\* and whose core 1 failed
C1_Witness ==
    /\ Constructed
    /\ Cores = 2
    /\ \E s, d \in Range(statistics) :
          /\ s \in Tracked
          /\ d \notin Tracked
          /\ creatable[<<d, 0>>]
          /\ ~creatable[<<d, 1>>]

\* C2: a sample() entered while Registered issues no register_counter call; a
\* sample() entered while Unregistered issues exactly one register_counter call
\* per tracked Statistic and none for any other.
C2_SampleRegistersOncePerTransition ==
    op = "sample" =>
       IF wasInitialized
       THEN Calls("register_counter") = {}
       ELSE /\ \A s \in Tracked : Cardinality(CallsFor("register_counter", s)) = 1
            /\ \A i \in Calls("register_counter") : trace[i].statistic \in Tracked

\* a sample() made while Registered, right after the sample() that registered,
\* on a pool of two Statistics
C2_Witness ==
    /\ op = "sample"
    /\ prevOp = "sample"
    /\ wasInitialized
    /\ Cardinality(Tracked) = 2
    /\ Calls("record_counter") # {}

\* C3: every record_counter call for a Statistic comes after a register_counter
\* call for the same Statistic with no delete_channel of its channel in between
\* (over the whole history of calls); within one sample() every register_counter
\* call comes before the first record_counter call.
C3_RegisteredBeforeRecorded ==
    /\ \A i \in Calls("record_counter") :
          to_string(trace[i].statistic) \in ApplyCalls(channelsBefore, SubSeq(trace, 1, i - 1))
    /\ op = "sample" =>
          \A i \in Calls("register_counter"), j \in Calls("record_counter") : i < j

\* a sample() entered Unregistered after a deregister() registers and records
\* two Statistics whose channels did not exist
C3_Witness ==
    /\ op = "sample"
    /\ ~wasInitialized
    /\ prevOp = "deregister"
    /\ channelsBefore = {}
    /\ Cardinality(Calls("register_counter")) = 2
    /\ Cardinality(Calls("record_counter")) = 2
\* the result of the read of handle h in the operation that returned last
ResultOf(h) == trace[CHOOSE i \in Calls("read") : trace[i].counter = h].result

\* the per-core readings of a statistic in this tick, a failed read counted as 0
ReadingsOf(s) ==
    [c \in 1..Cores |-> IF ResultOf(Handle(s, c - 1)).ok THEN ResultOf(Handle(s, c - 1)).val ELSE 0]

RECURSIVE ArithmeticSum(_)
ArithmeticSum(a) == IF a = <<>> THEN 0 ELSE Head(a) + ArithmeticSum(Tail(a))

\* C4: for every tracked Statistic and every tick the value passed to
\* record_counter equals the arithmetic sum a0+...+an-1 of the tick's per-core
\* readings (a failed read counted as 0).
C4_SumIsArithmeticSum ==
    op = "sample" =>
       \A i \in Calls("record_counter") :
          trace[i].value = ArithmeticSum(ReadingsOf(trace[i].statistic))

\* C5: a failed read counts as 0 for its core only: every counter of the pool is
\* still read (once) in the tick, and every tracked Statistic still gets a value,
\* the sum in the counter word of its readings with the failed ones as 0 (0 when
\* all failed).
C5_FailedReadCountsZero ==
    op = "sample" =>
       /\ \A h \in Handles(counters) :
             Cardinality({i \in Calls("read") : trace[i].counter = h}) = 1
       /\ \A s \in Tracked :
             /\ CallsFor("record_counter", s) # {}
             /\ \A i \in CallsFor("record_counter", s) :
                   trace[i].value = ArithmeticSum(ReadingsOf(s)) % Modulus

\* a tick on two cores where one Statistic's core 0 read fails and its core 1
\* read gives 1, recorded as 1, while every read of another Statistic fails,
\* recorded as 0
C5_Witness ==
    /\ op = "sample"
    /\ Cores = 2
    /\ \E s, d \in Tracked :
          /\ s # d
          /\ ~ResultOf(Handle(s, 0)).ok
          /\ ResultOf(Handle(s, 1)) = [ok |-> TRUE, val |-> 1]
          /\ \E i \in CallsFor("record_counter", s) : trace[i].value = 1
          /\ \A c \in 0..1 : ~ResultOf(Handle(d, c)).ok
          /\ \E i \in CallsFor("record_counter", d) : trace[i].value = 0

\* C6: every sample() emits exactly one record_counter call per Statistic of the
\* pool and none for any other; all carry the timestamp captured by the single
\* precise_time_ns call that opens the sample, before any counter is read.
C6_OneRecordPerStatisticOneTimestamp ==
    op = "sample" =>
       /\ Calls("precise_time_ns") = {1}
       /\ \A s \in Tracked : Cardinality(CallsFor("record_counter", s)) = 1
       /\ \A i \in Calls("record_counter") :
             /\ trace[i].statistic \in Tracked
             /\ trace[i].time = trace[1].time

\* a sample() on a pool of two Statistics, both recorded at time MaxTime
C6_Witness ==
    /\ op = "sample"
    /\ Cardinality(Tracked) = 2
    /\ Cardinality(Calls("record_counter")) = 2
    /\ \A i \in Calls("record_counter") : trace[i].time = MaxTime

\* C7: deregister() on a Registered sampler leaves it Unregistered, and the
\* sample() that follows registers every tracked Statistic again (its channel
\* exists afterwards), then records every Statistic, and leaves it Registered.
C7_SampleAfterDeregisterReregisters ==
    /\ (op = "deregister" /\ wasInitialized) => ~initialized
    /\ (op = "sample" /\ prevOp = "deregister" /\ prevWasInitialized) =>
          /\ ~wasInitialized
          /\ initialized
          /\ \A s \in Tracked :
                /\ to_string(s) \notin channelsBefore
                /\ to_string(s) \in channels
                /\ Cardinality(CallsFor("register_counter", s)) = 1
                /\ Cardinality(CallsFor("record_counter", s)) = 1
                /\ \A i \in CallsFor("register_counter", s), j \in CallsFor("record_counter", s) :
                      i < j

\* Registered, deregister(), then a sample() that recreates two channels
C7_Witness ==
    /\ op = "sample"
    /\ prevOp = "deregister"
    /\ prevWasInitialized
    /\ initialized
    /\ Cardinality(Tracked) = 2
    /\ Cardinality(channels) = 2
    /\ channelsBefore = {}

\* C8: deregister() on a Registered sampler issues exactly one delete_channel
\* call per tracked Statistic, named by the Statistic's display label, no other
\* call, and leaves the sampler Unregistered.
C8_DeregisterDeletesEveryChannel ==
    (op = "deregister" /\ wasInitialized) =>
       /\ ~initialized
       /\ \A i \in DOMAIN trace : trace[i].call = "delete_channel"
       /\ Len(trace) = Cardinality(Tracked)
       /\ \A s \in Tracked :
             Cardinality({i \in DOMAIN trace : trace[i].name = to_string(s)}) = 1

\* a deregister() that deletes the two channels of a Registered sampler
C8_Witness ==
    /\ op = "deregister"
    /\ wasInitialized
    /\ Cardinality(Tracked) = 2
    /\ Len(trace) = 2
    /\ channelsBefore # {}
    /\ channels = {}

\* C9: deregister() on an Unregistered sampler makes no call and leaves the
\* flag, the pool and the recorder as they were.
C9_DeregisterUnregisteredIsNoOp ==
    [][(pc = "idle" /\ op' = "deregister" /\ ~initialized) =>
          /\ trace' = <<>>
          /\ UNCHANGED <<initialized, counters, keyOrder, channels>>]_vars

\* the second of two deregister() calls in a row, on a pool of two Statistics
\* whose channels the first one deleted
C9_Witness ==
    /\ op = "deregister"
    /\ prevOp = "deregister"
    /\ prevWasInitialized
    /\ ~wasInitialized
    /\ Cardinality(Tracked) = 2
    /\ trace = <<>>

\* C10: register() on an Unregistered sampler issues one register_counter call
\* per tracked Statistic, nothing else, and sets Registered; on a Registered
\* sampler it issues no call and changes nothing, so a second register() in a
\* row leaves the sampler and the recorder as the first one left them.
C10_RegisterIdempotent ==
    [][(pc = "idle" /\ op' = "register") =>
          IF initialized
          THEN /\ trace' = <<>>
               /\ UNCHANGED <<initialized, counters, keyOrder, channels>>
          ELSE /\ initialized'
               /\ UNCHANGED <<counters, keyOrder>>
               /\ Len(trace') = Cardinality(Tracked)
               /\ \A i \in DOMAIN trace' : trace'[i].call = "register_counter"
               /\ \A s \in Tracked :
                     Cardinality({i \in DOMAIN trace' : trace'[i].statistic = s}) = 1]_vars

\* the second of two register() calls in a row, the first of which registered
\* two Statistics
C10_Witness ==
    /\ op = "register"
    /\ prevOp = "register"
    /\ ~prevWasInitialized
    /\ wasInitialized
    /\ Cardinality(Tracked) = 2
    /\ Cardinality(channels) = 2
    /\ trace = <<>>
\* C11: sample() returns Ok whatever the pool, the registration state and the
\* outcomes of the reads.
C11_SampleAlwaysOk == op = "sample" => ret = "Ok(())"

\* a sample() entered Unregistered on a pool of two Statistics where some reads
\* fail and some succeed
C11_Witness ==
    /\ op = "sample"
    /\ ret = "Ok(())"
    /\ ~wasInitialized
    /\ Cardinality(Tracked) = 2
    /\ \E i, j \in Calls("read") : ~trace[i].result.ok /\ trace[j].result.ok

\* C12: with the sampler enabled Perf::new returns a sampler whatever creations
\* fail; whether a Statistic is retained depends on its own creations only; if
\* every Statistic fails the pool is empty.
C12_ConstructionNeverFails ==
    (op = "new" /\ enabled) =>
       /\ ret = "Ok(Some)"
       /\ pc = "returned"
       /\ \A s \in Range(statistics) :
             s \in Tracked <=> \A c \in 0..(Cores - 1) : creatable[<<s, c>>]
       /\ (\A s \in Range(statistics) : \E c \in 0..(Cores - 1) : ~creatable[<<s, c>>])
             => counters = EmptyMap

\* the first configured Statistic fails on core 1 of 2, the second is retained
C12_Witness ==
    /\ op = "new"
    /\ enabled
    /\ ret = "Ok(Some)"
    /\ Cores = 2
    /\ Len(statistics) = 2
    /\ creatable[<<statistics[1], 0>>]
    /\ ~creatable[<<statistics[1], 1>>]
    /\ Tracked = {statistics[2]}

\* the attempts made for one statistic, in the order they were made
AttemptsOf(s) == SelectSeq(attempts, LAMBDA a : a.statistic = s)

\* C13: if hardware_threads() fails, each configured Statistic is attempted on
\* core 0 only, is retained (with one handle) exactly when that creation
\* succeeds, and Perf::new returns a sampler.
C13_UnknownThreadCountMeansOneCore ==
    (Constructed /\ ~threads.ok) =>
       /\ op = "new" => ret = "Ok(Some)"
       /\ \A s \in Range(statistics) :
             /\ Len(AttemptsOf(s)) = 1
             /\ AttemptsOf(s)[1].core = 0
             /\ s \in Tracked <=> creatable[<<s, 0>>]
             /\ s \in Tracked => counters[s] = <<Handle(s, 0)>>

\* thread count unknown, two Statistics configured, one created and one not
C13_Witness ==
    /\ op = "new"
    /\ enabled
    /\ ~threads.ok
    /\ Len(statistics) = 2
    /\ Cardinality(Tracked) = 1
    /\ Len(attempts) = 2

\* C14: with the sampler disabled Perf::new returns Ok(None), attempts no
\* counter creation and makes no recorder call.
C14_DisabledCreatesNothing ==
    (op = "new" /\ ~enabled) =>
       /\ pc = "disabled"
       /\ ret = "Ok(None)"
       /\ attempts = <<>>
       /\ counters = EmptyMap
       /\ trace = <<>>
       /\ channels = channelsBefore

\* disabled, although two Statistics are configured and every counter could be
\* created
C14_Witness ==
    /\ pc = "disabled"
    /\ ret = "Ok(None)"
    /\ Len(statistics) = 2
    /\ \A x \in DOMAIN creatable : creatable[x]

\* the place of a statistic in the configuration
Position(s) == CHOOSE k \in DOMAIN statistics : statistics[k] = s

\* C15: for each configured Statistic creation is attempted on cores 0, 1, 2, ..
\* in increasing order and stops at the first failure; every configured
\* Statistic is attempted, in configuration order.
C15_AttemptsInOrderStopAtFailure ==
    Constructed =>
       /\ \A s \in Range(statistics) :
             /\ Len(AttemptsOf(s)) >= 1
             /\ Len(AttemptsOf(s)) <= Cores
             /\ \A k \in DOMAIN AttemptsOf(s) :
                   /\ AttemptsOf(s)[k].core = k - 1
                   /\ AttemptsOf(s)[k].ok = creatable[<<s, k - 1>>]
                   /\ ~AttemptsOf(s)[k].ok => k = Len(AttemptsOf(s))
             /\ AttemptsOf(s)[Len(AttemptsOf(s))].ok => Len(AttemptsOf(s)) = Cores
       /\ \A i, j \in DOMAIN attempts :
             /\ attempts[i].statistic \in Range(statistics)
             /\ i < j => Position(attempts[i].statistic) <= Position(attempts[j].statistic)

\* two cores: the first Statistic fails on core 0 although core 1 would have
\* succeeded, core 1 is not attempted, and the second Statistic is attempted
C15_Witness ==
    /\ Constructed
    /\ Cores = 2
    /\ Len(statistics) = 2
    /\ ~creatable[<<statistics[1], 0>>]
    /\ creatable[<<statistics[1], 1>>]
    /\ Len(attempts) = 3
    /\ attempts[2].statistic = statistics[2]

\* C16: once constructed, no operation adds or removes a key of the pool or
\* changes the number of handles of a key.
C16_PoolReadOnly ==
    [][Constructed =>
          /\ DOMAIN counters' = DOMAIN counters
          /\ \A s \in DOMAIN counters : Len(counters'[s]) = Len(counters[s])]_vars

\* a pool of two Statistics on two cores, intact after a sample() that
\* registered, a deregister() and a name()
C16_Witness ==
    /\ op = "name"
    /\ prevOp = "deregister"
    /\ prevWasInitialized
    /\ Cardinality(Tracked) = 2
    /\ \A s \in Tracked : Len(counters[s]) = 2
\* the (statistic, value) pairs a sequence of calls records
Recorded(calls) ==
    {<<calls[i].statistic, calls[i].value>> :
        i \in {k \in DOMAIN calls : calls[k].call = "record_counter"}}

\* the reads a sequence of calls makes, in order
ReadsOf(calls) == SelectSeq(calls, LAMBDA c : c.call = "read")

\* C17: the values a sample() records depend on that call's read results only:
\* two runs with different histories that get the same read results in a tick
\* record the same value for every Statistic, and both read every counter.
C17_TickIndependentOfHistory ==
    twinTrace # <<>> =>
       /\ op = "sample"
       /\ Recorded(trace) = Recorded(twinTrace)
       /\ \A s \in Tracked : \E p \in Recorded(trace) : p[1] = s
       /\ ReadsOf(trace) = ReadsOf(twinTrace)
       /\ \A h \in Handles(counters) :
             Cardinality({i \in DOMAIN ReadsOf(twinTrace) : ReadsOf(twinTrace)[i].counter = h}) = 1

\* one run samples right after construction (Unregistered, no earlier read),
\* the other is Registered and had failed reads in earlier ticks; both record
\* the same two values, one of them not 0
C17_Witness ==
    /\ twinTrace # <<>>
    /\ prevOp = "new"
    /\ ~wasInitialized
    /\ twinFailedBefore
    /\ \A i \in DOMAIN twinTrace : twinTrace[i].call # "register_counter"
    /\ Cardinality(Tracked) = 2
    /\ \E p \in Recorded(twinTrace) : p[2] # 0
\* C18: with no channel before construction and no one else touching them,
\* between operations a Registered sampler has a channel for every tracked
\* Statistic and an Unregistered one has none for any; construction makes no
\* recorder call and leaves the sampler Unregistered.
C18_FlagAgreesWithRecorder ==
    /\ Constructed =>
          \A s \in Tracked : initialized <=> to_string(s) \in channels
    /\ op = "new" => (trace = <<>> /\ ~initialized /\ channels = channelsBefore)

\* Unregistered again after a deregister() that deleted the two channels a
\* sample() had created
C18_Witness ==
    /\ pc = "idle"
    /\ prevOp = "deregister"
    /\ prevWasInitialized
    /\ ~initialized
    /\ Cardinality(Tracked) = 2
    /\ channels = {}

\* C19: when sample() returns the sampler is Registered, whatever it was before
\* and whatever the reads gave; only deregister() takes the sampler from
\* Registered to Unregistered.
C19_SampleLeavesRegistered ==
    /\ [](op = "sample" => initialized)
    /\ [][(initialized /\ ~initialized') => op' = "deregister"]_vars

\* a sample() entered Unregistered in which every read of a pool of two
\* Statistics fails, and which returns Registered
C19_Witness ==
    /\ op = "sample"
    /\ ~wasInitialized
    /\ initialized
    /\ Cardinality(Tracked) = 2
    /\ \A i \in Calls("read") : ~trace[i].result.ok

\* C20: a sampler with an empty pool never calls register_counter,
\* record_counter or delete_channel, while its flag still goes to Registered on
\* sample() and register() and back to Unregistered on deregister().
C20_EmptyPoolInert ==
    (Constructed /\ Tracked = {}) =>
       /\ \A i \in DOMAIN trace :
             trace[i].call \notin {"register_counter", "record_counter", "delete_channel"}
       /\ channels = {}
       /\ op \in {"sample", "register"} => initialized
       /\ op = "deregister" => ~initialized

\* every configured Statistic failed; the empty sampler was Registered by a
\* sample() and is now deregistered without a single recorder call
C20_Witness ==
    /\ Constructed
    /\ Tracked = {}
    /\ Len(statistics) = 2
    /\ op = "deregister"
    /\ prevOp = "sample"
    /\ wasInitialized
    /\ ~initialized
    /\ trace = <<>>
====
